---- MODULE Spec2Model ----
(***************************************************************************)
(* Model of sudoku_backtrack.py: class Sudoku (construction, input         *)
(* validation, is_valid_move, find_least_candidates_cell, solve).          *)
(* The recursion of solve() is an explicit stack of frames; one action is  *)
(* one statement group of solve(), so every tentative assignment and every *)
(* backtrack reset is a state of its own.                                  *)
(***************************************************************************)
EXTENDS Integers, Sequences, FiniteSets, TLC

VARIABLES
    input,        \* the argument given to Sudoku(board): rows of raw cells
    phase,        \* "new", "raised", "ready", "solving", "returned"
    error,        \* exception raised by __init__: "none" or its type name
    attrs,        \* attributes that exist on the object
    board,        \* self.board (rows 0..8 of columns 0..8)
    steps,        \* self.steps
    stack,        \* active solve() invocations, outermost first
    ret,          \* value returned by the solve() invocation that returned last
    board0,       \* history: the grid at the outermost solve() call
    calls,        \* history: number of outermost solve() calls
    invocations,  \* history: number of solve() invocations begun
    assigns,      \* history: number of tentative assignments (line 125)
    resets,       \* history: number of backtrack resets (line 128)
    hist,         \* history: steps at the outermost call, invocations that branched
    query         \* last external is_valid_move call and its result

vars == <<input, phase, error, attrs, board, steps, stack, ret,
          board0, calls, invocations, assigns, resets, hist, query>>

-----------------------------------------------------------------------------
(* Bounds of the model *)

NumHoles == 5      \* cells of the solved grid that vary in the initial boards
MaxCalls == 2      \* outermost solve() calls per solver object

-----------------------------------------------------------------------------
(* Grids *)

Idx == 0 .. 8
Digits == 1 .. 9

Grid(t) == [r \in Idx |-> [c \in Idx |-> t[r + 1][c + 1]]]

\* the module-level example board, all cells empty
EmptyBoard == [r \in Idx |-> [c \in Idx |-> 0]]

Solved == Grid(<<
    <<5, 3, 4, 6, 7, 8, 9, 1, 2>>,
    <<6, 7, 2, 1, 9, 5, 3, 4, 8>>,
    <<1, 9, 8, 3, 4, 2, 5, 6, 7>>,
    <<8, 5, 9, 7, 6, 1, 4, 2, 3>>,
    <<4, 2, 6, 8, 5, 3, 7, 9, 1>>,
    <<7, 1, 3, 9, 2, 4, 8, 5, 6>>,
    <<9, 6, 1, 5, 3, 7, 2, 8, 4>>,
    <<2, 8, 7, 4, 1, 9, 6, 3, 5>>,
    <<3, 4, 5, 2, 8, 6, 1, 7, 9>> >>)

ExamplePuzzle == Grid(<<
    <<5, 3, 0, 0, 7, 0, 0, 0, 0>>,
    <<6, 0, 0, 1, 9, 5, 0, 0, 0>>,
    <<0, 9, 8, 0, 0, 0, 0, 6, 0>>,
    <<8, 0, 0, 0, 6, 0, 0, 0, 3>>,
    <<4, 0, 0, 8, 0, 3, 0, 0, 1>>,
    <<7, 0, 0, 0, 2, 0, 0, 0, 6>>,
    <<0, 6, 0, 0, 0, 0, 2, 8, 0>>,
    <<0, 0, 0, 4, 1, 9, 0, 0, 5>>,
    <<0, 0, 0, 0, 8, 0, 0, 7, 9>> >>)

\* a unit-consistent, solvable board on which the search backtracks
BacktrackPuzzle == Grid(<<
    <<0, 3, 0, 6, 7, 8, 0, 1, 2>>,
    <<0, 7, 2, 1, 9, 5, 3, 0, 0>>,
    <<1, 9, 8, 3, 4, 0, 0, 6, 7>>,
    <<8, 5, 9, 7, 0, 0, 4, 0, 0>>,
    <<4, 0, 6, 8, 0, 0, 7, 0, 0>>,
    <<7, 1, 3, 9, 2, 0, 8, 5, 0>>,
    <<9, 0, 0, 0, 0, 0, 0, 0, 0>>,
    <<2, 0, 7, 0, 1, 9, 0, 0, 0>>,
    <<3, 0, 0, 2, 8, 0, 0, 0, 9>> >>)

\* a unit-consistent board without completion on which the search backtracks
DeadEndPuzzle == Grid(<<
    <<5, 3, 4, 6, 7, 8, 9, 0, 2>>,
    <<6, 7, 2, 1, 9, 5, 3, 0, 0>>,
    <<0, 9, 8, 3, 4, 0, 0, 0, 5>>,
    <<8, 5, 9, 7, 6, 1, 4, 2, 3>>,
    <<4, 2, 6, 8, 5, 0, 7, 9, 0>>,
    <<7, 0, 3, 9, 2, 0, 8, 0, 6>>,
    <<9, 6, 0, 5, 0, 7, 2, 8, 4>>,
    <<2, 8, 0, 0, 0, 0, 6, 3, 0>>,
    <<3, 4, 5, 2, 8, 6, 0, 0, 9>> >>)

HoleCells == << <<0, 8>>, <<0, 1>>, <<1, 6>>, <<3, 8>>, <<3, 7>>, <<7, 8>>, <<5, 2>> >>

\* value of a varying cell: empty, the solved digit, or the next digit
HoleValue(r, c, v) ==
    IF v = 0 THEN 0 ELSE IF v = 1 THEN Solved[r][c] ELSE (Solved[r][c] % 9) + 1

Punch(n, f) ==
    [r \in Idx |-> [c \in Idx |->
        IF \E k \in 1 .. n : HoleCells[k] = <<r, c>>
        THEN HoleValue(r, c, f[CHOOSE k \in 1 .. n : HoleCells[k] = <<r, c>>])
        ELSE Solved[r][c]]]

Family(n) == {Punch(n, f) : f \in [1 .. n -> 0 .. 2]}

Boards ==
    Family(NumHoles) \cup {EmptyBoard, ExamplePuzzle, BacktrackPuzzle, DeadEndPuzzle}

-----------------------------------------------------------------------------
(* Constructor arguments: a raw cell is a Python value, an int or not *)

IntCell(n) == [isint |-> TRUE, val |-> n]
FloatCell(n) == [isint |-> FALSE, val |-> n]

Raw(b) == [r \in DOMAIN b |-> [c \in DOMAIN b[r] |-> IntCell(b[r][c])]]

DropRow(g) == [r \in 0 .. 7 |-> g[r]]
AddRow(g) == [r \in 0 .. 9 |-> IF r = 9 THEN g[0] ELSE g[r]]
ShortRow(g, k) == [g EXCEPT ![k] = [c \in 0 .. 7 |-> g[k][c]]]
LongRow(g, k) == [g EXCEPT ![k] = [c \in 0 .. 9 |-> IF c = 9 THEN IntCell(0) ELSE g[k][c]]]
SetCell(g, r, c, x) == [g EXCEPT ![r][c] = x]

BadInputs ==
    LET g == Raw(ExamplePuzzle) IN
    {DropRow(g), AddRow(g), ShortRow(g, 0), ShortRow(g, 8), LongRow(g, 4),
     [r \in {} |-> g[0]], [r \in 0 .. 8 |-> [c \in 0 .. 7 |-> g[r][c]]]}
    \cup {SetCell(g, r, c, x) : r \in {0, 8}, c \in {2, 8},
                                x \in {IntCell(10), IntCell(0 - 1), FloatCell(4), IntCell(11)}}

\* grids of the solvers whose is_valid_move is queried from outside
QueryBoards ==
    Family(NumHoles - 2) \cup {EmptyBoard, ExamplePuzzle, BacktrackPuzzle, DeadEndPuzzle}

Inputs == {Raw(b) : b \in Boards} \cup BadInputs

-----------------------------------------------------------------------------
(* Sudoku.is_valid_input *)

len(s) == Cardinality(DOMAIN s)

CellInRangeLoose(x) == x.isint /\ 0 <= x.val /\ x.val <= 10

CellInRange(x) == x.isint /\ 0 <= x.val /\ x.val <= 9

is_valid_input(g) ==
    IF len(g) # 9 \/ \E r \in DOMAIN g : len(g[r]) # 9
    THEN FALSE
    ELSE \A r \in DOMAIN g : \A c \in DOMAIN g[r] : CellInRange(g[r][c])

\* self.board = board: the accepted rows, every cell an int
Cells(g) == [r \in DOMAIN g |-> [c \in DOMAIN g[r] |-> g[r][c].val]]

NoBoard == <<>>

(* Sudoku.__init__ *)
Construct ==
    /\ phase = "new"
    /\ IF ~is_valid_input(input)
       THEN /\ phase' = "raised"
            /\ error' = "ValueError"
            /\ UNCHANGED <<attrs, board, steps>>
       ELSE /\ phase' = "ready"
            /\ board' = Cells(input)
            /\ steps' = 0
            /\ attrs' = {"board", "steps"}
            /\ UNCHANGED error
    /\ UNCHANGED <<input, stack, ret, board0, calls, invocations, assigns, resets, hist, query>>

-----------------------------------------------------------------------------
(* Sudoku.is_valid_move *)

\* variants of the check that leave out, or misplace, one of the three scans
is_valid_move_nocol(b, row, col, num) ==
    \A i \in 0 .. 8 :
        ~(\/ b[row][i] = num
          \/ b[(row - (row % 3)) + (i \div 3)][(col - (col % 3)) + (i % 3)] = num)

is_valid_move_nobox(b, row, col, num) ==
    \A i \in 0 .. 8 :
        ~(\/ b[row][i] = num
          \/ b[i][col] = num)

is_valid_move_norow(b, row, col, num) ==
    \A i \in 0 .. 8 :
        ~(\/ b[i][col] = num
          \/ b[(row - (row % 3)) + (i \div 3)][(col - (col % 3)) + (i % 3)] = num)

is_valid_move_diag(b, row, col, num) ==
    \A i \in 0 .. 8 :
        ~(\/ b[row][i] = num
          \/ b[i][col] = num
          \/ b[(row - (row % 3)) + (i % 3)][(col - (col % 3)) + (i % 3)] = num)

is_valid_move(b, row, col, num) ==
    \A i \in 0 .. 8 :
        ~(\/ b[row][i] = num
          \/ b[i][col] = num
          \/ b[(row - (row % 3)) + (i \div 3)][(col - (col % 3)) + (i % 3)] = num)

(* Sudoku.find_least_candidates_cell *)

None == <<>>

\* variant: a later cell with as few candidates replaces the earlier one
RECURSIVE ScanRowLast(_, _, _, _, _)
ScanRowLast(b, i, j, min_candidates, cell) ==
    IF j = 9 THEN <<min_candidates, cell>>
    ELSE IF b[i][j] = 0
         THEN LET candidates == Cardinality({num \in 1 .. 9 : is_valid_move(b, i, j, num)})
              IN  IF candidates <= min_candidates
                  THEN ScanRowLast(b, i, j + 1, candidates, <<i, j>>)
                  ELSE ScanRowLast(b, i, j + 1, min_candidates, cell)
         ELSE ScanRowLast(b, i, j + 1, min_candidates, cell)

\* lines 90-95: for j in range(9), the scan of row i
RECURSIVE ScanRow(_, _, _, _, _)
ScanRow(b, i, j, min_candidates, cell) ==
    IF j = 9 THEN <<min_candidates, cell>>
    ELSE IF b[i][j] = 0
         THEN LET candidates == Cardinality({num \in 1 .. 9 : is_valid_move(b, i, j, num)})
              IN  IF candidates < min_candidates
                  THEN ScanRow(b, i, j + 1, candidates, <<i, j>>)
                  ELSE ScanRow(b, i, j + 1, min_candidates, cell)
         ELSE ScanRow(b, i, j + 1, min_candidates, cell)

\* line 89: for i in range(9); min_candidates and cell after row i are the
\* values row i + 1 starts from
RECURSIVE ScanRows(_, _, _)
ScanRows(b, i, acc) ==
    IF i = 9 THEN acc
    ELSE CHOOSE out \in {ScanRows(b, i + 1, after) :
                            after \in {ScanRow(b, i, 0, acc[1], acc[2])}} : TRUE

\* variant: cell starts as the first cell, not as None
find_least_candidates_cell_origin(b) == ScanRows(b, 0, <<10, <<0, 0>>>>)[2]

find_least_candidates_cell(b) == ScanRows(b, 0, <<10, None>>)[2]

-----------------------------------------------------------------------------
(* Sudoku.solve *)

\* tried is history: the digits this invocation assigned and took back
EntryFrame == [pc |-> "entry", row |-> 0, col |-> 0, num |-> 0, tried |-> <<>>]

Top == stack[Len(stack)]
Pop(s) == SubSeq(s, 1, Len(s) - 1)
SetTop(s, f) == [s EXCEPT ![Len(s)] = f]

\* variant: the loop steps over every other digit
NextNumSkip(num) == num + 2

NextNum(num) == num + 1

\* `return v` of the innermost invocation
Return(v) ==
    /\ stack' = Pop(stack)
    /\ ret' = v
    /\ phase' = IF Len(stack) = 1 THEN "returned" ELSE "solving"

\* variant: the counter restarts at every outermost call
SolveCallResetting ==
    /\ phase \in {"ready", "returned"}
    /\ calls < MaxCalls
    /\ phase' = "solving"
    /\ stack' = <<EntryFrame>>
    /\ ret' = "none"
    /\ board0' = board
    /\ calls' = calls + 1
    /\ invocations' = invocations + 1
    /\ steps' = 0
    /\ hist' = [hist EXCEPT !.steps0 = steps]
    /\ UNCHANGED <<input, error, attrs, board, assigns, resets, query>>

\* the caller invokes sudoku.solve()
SolveCall ==
    /\ phase \in {"ready", "returned"}
    /\ calls < MaxCalls
    /\ phase' = "solving"
    /\ stack' = <<EntryFrame>>
    /\ ret' = "none"
    /\ board0' = board
    /\ calls' = calls + 1
    /\ invocations' = invocations + 1
    /\ hist' = [hist EXCEPT !.steps0 = steps]
    /\ UNCHANGED <<input, error, attrs, board, steps, assigns, resets, query>>

\* lines 117-122: count the step, select the cell, return True on a full grid
Enter ==
    /\ phase = "solving"
    /\ Top.pc = "entry"
    /\ steps' = steps + 1
    /\ LET cell == find_least_candidates_cell(board) IN
       IF cell = None
       THEN /\ Return("True")
            /\ UNCHANGED hist
       ELSE /\ stack' = SetTop(stack, [pc |-> "loop", row |-> cell[1], col |-> cell[2],
                                       num |-> 1, tried |-> <<>>])
            /\ hist' = [hist EXCEPT !.branches = @ + 1]
            /\ UNCHANGED <<ret, phase>>
    /\ UNCHANGED <<input, error, attrs, board, board0, calls, invocations, assigns, resets, query>>

\* variant: solve() recurses without writing the digit
AssignDigitNoWrite ==
    /\ phase = "solving"
    /\ Top.pc = "loop"
    /\ Top.num <= 9
    /\ is_valid_move(board, Top.row, Top.col, Top.num)
    /\ stack' = Append(SetTop(stack, [Top EXCEPT !.pc = "called"]), EntryFrame)
    /\ invocations' = invocations + 1
    /\ assigns' = assigns + 1
    /\ UNCHANGED <<input, phase, error, attrs, board, steps, ret, board0, calls, resets,
                   hist, query>>

\* lines 123-126: a digit that passes the check is assigned and solve() recurses
AssignDigit ==
    /\ phase = "solving"
    /\ Top.pc = "loop"
    /\ Top.num <= 9
    /\ is_valid_move(board, Top.row, Top.col, Top.num)
    /\ board' = [board EXCEPT ![Top.row][Top.col] = Top.num]
    /\ stack' = Append(SetTop(stack, [Top EXCEPT !.pc = "called"]), EntryFrame)
    /\ invocations' = invocations + 1
    /\ assigns' = assigns + 1
    /\ UNCHANGED <<input, phase, error, attrs, steps, ret, board0, calls, resets, hist, query>>

\* variant: the loop does not advance past a digit that fails the check
SkipDigitStuck ==
    /\ phase = "solving"
    /\ Top.pc = "loop"
    /\ Top.num <= 9
    /\ ~is_valid_move(board, Top.row, Top.col, Top.num)
    /\ UNCHANGED vars

\* lines 123-124: a digit that fails the check is passed over
SkipDigit ==
    /\ phase = "solving"
    /\ Top.pc = "loop"
    /\ Top.num <= 9
    /\ ~is_valid_move(board, Top.row, Top.col, Top.num)
    /\ stack' = SetTop(stack, [Top EXCEPT !.num = NextNum(Top.num)])
    /\ UNCHANGED <<input, phase, error, attrs, board, steps, ret, board0, calls,
                   invocations, assigns, resets, hist, query>>

\* variant: the cell is reset before the result of the recursive call is looked at
PropagateSuccessUndo ==
    /\ phase = "solving"
    /\ Top.pc = "called"
    /\ ret = "True"
    /\ board' = [board EXCEPT ![Top.row][Top.col] = 0]
    /\ Return("True")
    /\ UNCHANGED <<input, error, attrs, steps, board0, calls, invocations,
                   assigns, resets, hist, query>>

\* lines 126-127: the recursive call returned True
PropagateSuccess ==
    /\ phase = "solving"
    /\ Top.pc = "called"
    /\ ret = "True"
    /\ Return("True")
    /\ UNCHANGED <<input, error, attrs, board, steps, board0, calls, invocations,
                   assigns, resets, hist, query>>

\* variant: the cell keeps the digit that failed
BacktrackNoReset ==
    /\ phase = "solving"
    /\ Top.pc = "called"
    /\ ret = "False"
    /\ stack' = SetTop(stack, [Top EXCEPT !.pc = "loop", !.num = NextNum(Top.num),
                                         !.tried = Append(@, Top.num)])
    /\ ret' = "none"
    /\ resets' = resets + 1
    /\ UNCHANGED <<input, phase, error, attrs, board, steps, board0, calls, invocations,
                   assigns, hist, query>>

\* variant: `return False` inside the loop, the remaining digits are not tried
BacktrackGiveUp ==
    /\ phase = "solving"
    /\ Top.pc = "called"
    /\ ret = "False"
    /\ board' = [board EXCEPT ![Top.row][Top.col] = 0]
    /\ stack' = SetTop(stack, [Top EXCEPT !.pc = "loop", !.num = 10,
                                         !.tried = Append(@, Top.num)])
    /\ ret' = "none"
    /\ resets' = resets + 1
    /\ UNCHANGED <<input, phase, error, attrs, steps, board0, calls, invocations,
                   assigns, hist, query>>

\* variant: the reset writes the cell with row and column exchanged
BacktrackSwapped ==
    /\ phase = "solving"
    /\ Top.pc = "called"
    /\ ret = "False"
    /\ board' = [board EXCEPT ![Top.col][Top.row] = 0]
    /\ stack' = SetTop(stack, [Top EXCEPT !.pc = "loop", !.num = NextNum(Top.num),
                                         !.tried = Append(@, Top.num)])
    /\ ret' = "none"
    /\ resets' = resets + 1
    /\ UNCHANGED <<input, phase, error, attrs, steps, board0, calls, invocations,
                   assigns, hist, query>>

\* lines 126-128: the recursive call returned False
Backtrack ==
    /\ phase = "solving"
    /\ Top.pc = "called"
    /\ ret = "False"
    /\ board' = [board EXCEPT ![Top.row][Top.col] = 0]
    /\ stack' = SetTop(stack, [Top EXCEPT !.pc = "loop", !.num = NextNum(Top.num),
                                         !.tried = Append(@, Top.num)])
    /\ ret' = "none"
    /\ resets' = resets + 1
    /\ UNCHANGED <<input, phase, error, attrs, steps, board0, calls, invocations,
                   assigns, hist, query>>

\* line 130: the loop is exhausted
ReturnFalse ==
    /\ phase = "solving"
    /\ Top.pc = "loop"
    /\ Top.num > 9
    /\ Return("False")
    /\ UNCHANGED <<input, error, attrs, board, steps, board0, calls, invocations,
                   assigns, resets, hist, query>>

SolveStep ==
    Enter \/ AssignDigit \/ SkipDigit \/ PropagateSuccess \/ Backtrack \/ ReturnFalse

-----------------------------------------------------------------------------
(* External query: sudoku.is_valid_move(row, col, num) between solve() calls *)

NoHistory == [steps0 |-> 0, branches |-> 0]

NoQuery == [op |-> "none", row |-> 0, col |-> 0, num |-> 0, result |-> FALSE, cell |-> None]

\* variant: the query writes the digit it was asked about
IsValidMoveCallMarking(row, col, num) ==
    /\ phase \in {"ready", "returned"}
    /\ query.op = "none"
    /\ query' = [op |-> "is_valid_move", row |-> row, col |-> col, num |-> num,
                 result |-> is_valid_move(board, row, col, num), cell |-> None]
    /\ board' = [board EXCEPT ![row][col] = num]
    /\ UNCHANGED <<input, phase, error, attrs, steps, stack, ret,
                   board0, calls, invocations, assigns, resets, hist>>

IsValidMoveCall(row, col, num) ==
    /\ phase \in {"ready", "returned"}
    /\ query.op = "none"
    /\ query' = [op |-> "is_valid_move", row |-> row, col |-> col, num |-> num,
                 result |-> is_valid_move(board, row, col, num), cell |-> None]
    /\ UNCHANGED <<input, phase, error, attrs, board, steps, stack, ret,
                   board0, calls, invocations, assigns, resets, hist>>

\* external query: sudoku.find_least_candidates_cell()
FindCall ==
    /\ phase \in {"ready", "returned"}
    /\ query.op = "none"
    /\ query' = [op |-> "find_least_candidates_cell", row |-> 0, col |-> 0, num |-> 0,
                 result |-> FALSE, cell |-> find_least_candidates_cell(board)]
    /\ UNCHANGED <<input, phase, error, attrs, board, steps, stack, ret,
                   board0, calls, invocations, assigns, resets, hist>>

\* the caller has taken the result of its query
QueryDone ==
    /\ query.op # "none"
    /\ query' = NoQuery
    /\ UNCHANGED <<input, phase, error, attrs, board, steps, stack, ret,
                   board0, calls, invocations, assigns, resets, hist>>

-----------------------------------------------------------------------------
(* Specifications *)

Init ==
    /\ input \in Inputs
    /\ phase = "new"
    /\ error = "none"
    /\ attrs = {}
    /\ board = NoBoard
    /\ steps = 0
    /\ stack = <<>>
    /\ ret = "none"
    /\ board0 = NoBoard
    /\ calls = 0
    /\ invocations = 0
    /\ assigns = 0
    /\ resets = 0
    /\ hist = NoHistory
    /\ query = NoQuery

Next ==
    \/ Construct
    \/ SolveCall
    \/ Enter
    \/ AssignDigit
    \/ SkipDigit
    \/ PropagateSuccess
    \/ Backtrack
    \/ ReturnFalse

Spec == Init /\ [][Next]_vars

\* solve() is synchronous: once called, it keeps running
FairSpec == Spec /\ WF_vars(SolveStep)

\* a constructed solver whose is_valid_move is queried from outside
QueryInit ==
    /\ \E b \in QueryBoards :
        /\ input = Raw(b)
        /\ board = b
    /\ phase = "ready"
    /\ error = "none"
    /\ attrs = {"board", "steps"}
    /\ steps = 0
    /\ stack = <<>>
    /\ ret = "none"
    /\ board0 = NoBoard
    /\ calls = 0
    /\ invocations = 0
    /\ assigns = 0
    /\ resets = 0
    /\ hist = NoHistory
    /\ query = NoQuery

QueryNext ==
    \/ \E row \in Idx, col \in Idx, num \in Digits : IsValidMoveCall(row, col, num)
    \/ FindCall
    \/ QueryDone

QuerySpec == QueryInit /\ [][QueryNext]_vars

-----------------------------------------------------------------------------
(* Reference notions the properties are stated in *)

RowUnit(r) == {<<r, c>> : c \in Idx}
ColUnit(c) == {<<r, c>> : r \in Idx}
BoxUnit(k) == {<<3 * (k \div 3) + dr, 3 * (k % 3) + dc>> : dr \in 0 .. 2, dc \in 0 .. 2}
Units == {RowUnit(r) : r \in Idx} \cup {ColUnit(c) : c \in Idx} \cup {BoxUnit(k) : k \in Idx}

At(b, p) == b[p[1]][p[2]]

\* no unit holds the same non-zero digit twice
Consistent(b) ==
    \A u \in Units : \A p \in u, q \in u : (p # q /\ At(b, p) # 0) => At(b, p) # At(b, q)

Full(b) == \A r \in Idx, c \in Idx : b[r][c] \in Digits

\* every unit holds every digit exactly once
Latin(b) == \A u \in Units : \A d \in Digits : Cardinality({p \in u : At(b, p) = d}) = 1

Peers(r, c) == RowUnit(r) \cup ColUnit(c) \cup BoxUnit(3 * (r \div 3) + (c \div 3))

\* the digit occurs in none of the row, the column and the box of (r, c)
Fits(b, r, c, d) == \A p \in Peers(r, c) : At(b, p) # d

\* some assignment of digits to the empty cells satisfies every unit
RECURSIVE HasCompletion(_)
HasCompletion(b) ==
    LET empties == {p \in Idx \X Idx : At(b, p) = 0} IN
    IF empties = {} THEN Consistent(b)
    ELSE \E p \in empties :
            /\ \A q \in empties : p[1] < q[1] \/ (p[1] = q[1] /\ p[2] <= q[2])
            /\ \E d \in Digits :
                  /\ Fits(b, p[1], p[2], d)
                  /\ \E filled \in {[b EXCEPT ![p[1]][p[2]] = d]} : HasCompletion(filled)

\* shape and range of a constructor argument
WellFormed(g) ==
    /\ DOMAIN g = 0 .. 8
    /\ \A r \in DOMAIN g : DOMAIN g[r] = 0 .. 8
    /\ \A r \in DOMAIN g : \A c \in DOMAIN g[r] : g[r][c].isint /\ g[r][c].val \in 0 .. 9

-----------------------------------------------------------------------------
(* Properties *)

\* C1 (soundness): when solve() called on a unit-consistent board returns
\* True, every cell holds a digit 1..9 and no unit holds a digit twice.
C1_Soundness ==
    (phase = "returned" /\ ret = "True" /\ Consistent(board0))
        => (Full(board) /\ Consistent(board))

C1_Witness ==
    /\ phase = "returned" /\ ret = "True"
    /\ Consistent(board0) /\ ~Full(board0)
    /\ resets > 0

\* C2 (completeness): when solve() called on a unit-consistent board returns
\* False, no assignment of digits to its empty cells satisfies every unit.
C2_Completeness ==
    (phase = "returned" /\ ret = "False" /\ Consistent(board0))
        => ~HasCompletion(board0)

C2_Witness ==
    /\ phase = "returned" /\ ret = "False"
    /\ Consistent(board0)
    /\ resets > 0

\* C3 (failure leaves the grid untouched): when the outermost solve() returns
\* False, every cell holds the value it held immediately before the call.
C3_FailureRestoresGrid ==
    (phase = "returned" /\ ret = "False") => board = board0

C3_Witness ==
    /\ phase = "returned" /\ ret = "False"
    /\ assigns > 0 /\ resets = assigns
    /\ board = board0

C5_GridConsistent ==
    (phase \in {"solving", "returned"} /\ Consistent(board0)) => Consistent(board)

C5_Witness ==
    /\ phase = "solving"
    /\ Consistent(board0)
    /\ resets > 0 /\ assigns > resets
    /\ Top.pc = "entry"

\* C6 as stated (construction validation): an ill-formed grid is rejected
\* with an InvalidBoardError and creates no state; a well-formed grid is
\* accepted whatever its digits.
C6_AsStated ==
    phase # "new" =>
        /\ (phase = "raised") <=> ~WellFormed(input)
        /\ phase = "raised" => (error = "InvalidBoardError" /\ attrs = {})
        /\ phase # "raised" => (error = "none" /\ attrs = {"board", "steps"})

\* C6 (amended): the rejection is a ValueError.
C6_ConstructionValidation ==
    phase # "new" =>
        /\ (phase = "raised") <=> ~WellFormed(input)
        /\ phase = "raised" => (error = "ValueError" /\ attrs = {})
        /\ phase # "raised" => (error = "none" /\ attrs = {"board", "steps"})
        /\ phase = "ready" => (board = Cells(input) /\ steps = 0)

C6_Witness ==
    /\ phase = "raised"
    /\ error = "ValueError"
    /\ DOMAIN input = 0 .. 8
    /\ \A r \in DOMAIN input : DOMAIN input[r] = 0 .. 8
    /\ \E r \in Idx, c \in Idx : input[r][c] = IntCell(10)

\* C7 (is_valid_move agrees with the reference predicate): the result is true
\* iff the digit occurs nowhere in the row, the column and the box of the
\* cell; it is false when the cell itself holds the digit.
C7_IsValidMoveReference ==
    query.op = "is_valid_move" =>
        /\ query.result <=> Fits(board, query.row, query.col, query.num)
        /\ board[query.row][query.col] = query.num => ~query.result

C7_Witness ==
    /\ query.op = "is_valid_move"
    /\ board[query.row][query.col] = query.num
    /\ ~query.result

\* C8 (is_valid_move is a pure query): a call changes no cell and leaves the
\* step counter alone.
C8_IsValidMovePure ==
    [][query' # query => (board' = board /\ steps' = steps)]_vars

C8_Witness ==
    /\ query.op = "is_valid_move"
    /\ query.result
    /\ board[query.row][query.col] = 0

\* C9 (step counter): the counter equals the number of solve() invocations
\* entered since construction; it starts at 0 and neither backtracking nor a
\* later call lowers it.
C9_StepCounter ==
    phase \in {"ready", "solving", "returned"} =>
        steps = invocations - (IF phase = "solving" /\ Top.pc = "entry" THEN 1 ELSE 0)

C9_Witness ==
    /\ phase = "returned"
    /\ calls = 2
    /\ resets > 0
    /\ steps = invocations
    /\ steps > 2

\* C10 (empty board): solve() on the all-zero board returns True with every
\* row, column and box holding each digit exactly once.
C10_EmptyBoard ==
    (phase = "returned" /\ board0 = EmptyBoard) =>
        (ret = "True" /\ Full(board) /\ Latin(board))

C10_Witness ==
    /\ phase = "returned" /\ board0 = EmptyBoard
    /\ ret = "True"
    /\ assigns = 81

\* the empty cells of a grid
Empties(b) == {p \in Idx \X Idx : At(b, p) = 0}

\* unit-consistent, one empty cell, one digit that fits it
SingleCellCase(b) ==
    /\ Consistent(b)
    /\ Cardinality(Empties(b)) = 1
    /\ \A p \in Empties(b) : Cardinality({d \in Digits : Fits(b, p[1], p[2], d)}) = 1

\* C11 (single empty cell): on a unit-consistent board with one empty cell
\* and one legal digit, solve() returns True; one invocation branches, it
\* makes one assignment, the legal digit to that cell, and nothing is reset.
C11_SingleCell ==
    (phase \in {"solving", "returned"} /\ SingleCellCase(board0)) =>
        /\ resets = 0
        /\ assigns <= 1
        /\ hist.branches <= 1
        /\ phase = "returned" =>
              /\ ret = "True"
              /\ assigns = 1
              /\ hist.branches = 1
              /\ \A p \in Idx \X Idx :
                    IF p \in Empties(board0)
                    THEN Fits(board0, p[1], p[2], At(board, p))
                    ELSE At(board, p) = At(board0, p)

C11_Witness ==
    /\ phase = "returned" /\ ret = "True"
    /\ SingleCellCase(board0)
    /\ assigns = 1 /\ hist.branches = 1 /\ steps = 2

\* number of digits that pass is_valid_move at a cell
Candidates(b, p) == Cardinality({d \in Digits : is_valid_move(b, p[1], p[2], d)})

\* p comes before q in row-major order
Before(p, q) == p[1] < q[1] \/ (p[1] = q[1] /\ p[2] < q[2])

\* C12 (MRV selection): find_least_candidates_cell returns the sentinel iff
\* no cell is empty; otherwise an empty cell with the fewest candidates over
\* all empty cells, the first such cell in row-major order.
C12_MRVSelection ==
    query.op = "find_least_candidates_cell" =>
        /\ (query.cell = None) <=> (Empties(board) = {})
        /\ query.cell # None =>
              /\ query.cell \in Empties(board)
              /\ \A q \in Empties(board) :
                    /\ Candidates(board, query.cell) <= Candidates(board, q)
                    /\ Before(q, query.cell) =>
                          Candidates(board, query.cell) < Candidates(board, q)

C12_Witness ==
    /\ query.op = "find_least_candidates_cell"
    /\ query.cell # None
    /\ \E q \in Empties(board) : Before(q, query.cell)
    /\ \E q \in Empties(board) :
          Before(query.cell, q) /\ Candidates(board, q) = Candidates(board, query.cell)

\* C13 (success propagates without mutation): the invocation that returns
\* True first found no empty cell and wrote nothing; from then on every step
\* is an enclosing invocation returning True, and the grid is not written.
C13_SuccessPropagates ==
    [][/\ (ret # "True" /\ ret' = "True") => (Empties(board) = {} /\ board' = board)
       /\ (phase = "solving" /\ ret = "True") =>
             (board' = board /\ ret' = "True" /\ Len(stack') = Len(stack) - 1)]_vars

C13_Witness ==
    /\ phase = "solving" /\ ret = "True"
    /\ Len(stack) >= 2
    /\ resets > 0

Elems(q) == {q[k] : k \in 1 .. Len(q)}
Ascending(q) == \A k \in 1 .. Len(q) - 1 : q[k] < q[k + 1]

\* the digits below n that pass is_valid_move at the cell of frame f
LegalBelow(f, n) == {d \in 1 .. n - 1 : is_valid_move(board, f.row, f.col, d)}

\* C14 (candidate order and backtracking): a digit is assigned to the empty
\* selected cell when it is legal and every smaller legal digit, in ascending
\* order, was assigned and taken back; a digit is taken back only when the
\* recursive call made with it returned False, and the cell is then 0; the
\* invocation returns False only with the cell 0 and every legal digit tried.
C14_CandidateOrder ==
    [][/\ assigns' > assigns =>
             /\ Top.pc = "loop"
             /\ board[Top.row][Top.col] = 0
             /\ board' = [board EXCEPT ![Top.row][Top.col] = Top.num]
             /\ Top.num \in Digits
             /\ is_valid_move(board, Top.row, Top.col, Top.num)
             /\ Ascending(Top.tried)
             /\ Elems(Top.tried) = LegalBelow(Top, Top.num)
       /\ (Len(stack') = Len(stack) /\ Len(stack) > 0 /\ Top'.tried # Top.tried) =>
             /\ Top.pc = "called"
             /\ ret = "False"
             /\ board[Top.row][Top.col] = Top.num
             /\ board' = [board EXCEPT ![Top.row][Top.col] = 0]
             /\ Top'.tried = Append(Top.tried, Top.num)
       /\ (ret # "False" /\ ret' = "False") =>
             /\ Top.pc = "loop"
             /\ board[Top.row][Top.col] = 0
             /\ board' = board
             /\ Ascending(Top.tried)
             /\ Elems(Top.tried) = LegalBelow(Top, 10)]_vars

C14_Witness ==
    /\ phase = "solving"
    /\ Top.pc = "called"
    /\ Len(Top.tried) >= 1
    /\ board[Top.row][Top.col] = Top.num

\* C15 as stated (recursion depth): the number of active solve() invocations
\* never exceeds the number of empty cells of the initial grid, nor 81.
C15_AsStated ==
    phase = "solving" =>
        (Len(stack) <= Cardinality(Empties(board0)) /\ Len(stack) <= 81)

\* C15 (amended): the depth never exceeds the number of empty cells of the
\* initial grid plus one, the invocation that finds the grid full; nor 82.
C15_RecursionDepth ==
    phase = "solving" =>
        (Len(stack) <= Cardinality(Empties(board0)) + 1 /\ Len(stack) <= 82)

C15_Witness ==
    /\ phase = "solving"
    /\ board0 = EmptyBoard
    /\ Len(stack) = 82
    /\ Top.pc = "entry"

\* the active invocations that have assigned their cell and are waiting for
\* the recursive call, and their cells
CalledFrames == {k \in 1 .. Len(stack) : stack[k].pc = "called"}
CalledCells == {<<stack[k].row, stack[k].col>> : k \in CalledFrames}

\* the cells whose value differs from the grid at the outermost call
Changed == {p \in Idx \X Idx : At(board, p) # At(board0, p)}

\* C16 as stated (mutate-then-undo): at every point during solve() the cells
\* that differ from the initial grid are exactly the cells assigned by the
\* active branching invocations, one distinct cell each, initially 0 and now
\* holding a digit 1..9.
C16_AsStated ==
    phase = "solving" =>
        /\ Changed = CalledCells
        /\ Cardinality(CalledCells) = Cardinality(CalledFrames)
        /\ \A k \in CalledFrames :
              /\ board0[stack[k].row][stack[k].col] = 0
              /\ board[stack[k].row][stack[k].col] \in Digits

\* C16 (amended): that holds as long as no invocation has returned True;
\* afterwards the cells of the invocations that returned True keep their
\* digits, so the differing cells include those of the active invocations,
\* and every differing cell was initially 0 and holds a digit 1..9.
C16_MutateThenUndo ==
    phase = "solving" =>
        /\ ret # "True" => Changed = CalledCells
        /\ CalledCells \subseteq Changed
        /\ Cardinality(CalledCells) = Cardinality(CalledFrames)
        /\ \A k \in CalledFrames :
              /\ board0[stack[k].row][stack[k].col] = 0
              /\ board[stack[k].row][stack[k].col] = stack[k].num
              /\ stack[k].num \in Digits
        /\ \A p \in Changed : At(board0, p) = 0 /\ At(board, p) \in Digits

C16_Witness ==
    /\ phase = "solving" /\ ret # "True"
    /\ resets > 0
    /\ Cardinality(CalledFrames) >= 2
    /\ Changed = CalledCells

\* C17 (givens are preserved): during solve() and on return, every cell that
\* was non-zero at the call holds the same value; only cells that were 0 are
\* written.
C17_GivensPreserved ==
    phase \in {"solving", "returned"} =>
        \A p \in Idx \X Idx : At(board0, p) # 0 => At(board, p) = At(board0, p)

C17_Witness ==
    /\ phase = "returned" /\ ret = "False"
    /\ resets > 0
    /\ \E p \in Idx \X Idx : At(board0, p) # 0
    /\ \E p \in Idx \X Idx : At(board0, p) = 0

\* C18 (no duplicate is introduced): during solve() and on return, on any
\* accepted board, two cells of one unit that hold the same non-zero digit
\* both held it at the call.
C18_NoNewDuplicate ==
    phase \in {"solving", "returned"} =>
        \A u \in Units : \A p \in u, q \in u :
            (p # q /\ At(board, p) # 0 /\ At(board, p) = At(board, q)) =>
                (At(board0, p) = At(board, p) /\ At(board0, q) = At(board, q))

C18_Witness ==
    /\ phase = "returned" /\ ret = "True"
    /\ ~Consistent(board0)
    /\ assigns >= 2
    /\ Full(board)

\* C19 (full-board call): solve() on a grid without empty cell, valid or not,
\* returns True from its first invocation, adds 1 to the step counter and
\* changes no cell.
C19_FullBoardCall ==
    (phase \in {"solving", "returned"} /\ Full(board0)) =>
        /\ board = board0
        /\ Len(stack) <= 1
        /\ phase = "solving" => (Top.pc = "entry" /\ steps = hist.steps0)
        /\ phase = "returned" => (ret = "True" /\ steps = hist.steps0 + 1)

C19_Witness ==
    /\ phase = "returned" /\ ret = "True"
    /\ Full(board0) /\ ~Consistent(board0)
    /\ board = board0
    /\ calls = 2 /\ steps = 2

====
